---- MODULE Spec2Model ----
(***************************************************************************)
(* Model of HanjaMemorizer.py: the cache store (index file + one cache     *)
(* file per dataset), the dataset normalisation routine, the resolution of *)
(* sheet URLs, and the handlers of the main window: the loaders and the    *)
(* timer-driven trainer.                                                   *)
(*                                                                         *)
(* Texts that reach the program from outside (names, source kinds, paths,  *)
(* URLs, cells and the fields of records) are sequences of one-character   *)
(* strings; strings the program makes itself (timestamps, file suffixes)   *)
(* and the tags of the model are TLA+ strings.                             *)
(***************************************************************************)
EXTENDS Integers, Sequences, FiniteSets, TLC

VARIABLES
    index_file,     \* content of CACHE_INDEX_FILE on disk
    cache_files,    \* the other files of CACHE_DIR: path -> content
    proc,           \* "up" while the application process runs, else "down"
    hanja_list,     \* self.hanja_list
    current_index,  \* self.current_index
    showing_hanja,  \* self.showing_hanja
    is_running,     \* self.is_running
    timer,          \* self.timer: "stopped", or the interval it was started with
    display,        \* what the three labels of the card show
    combo_items,    \* item data of self.cache_combo behind the placeholder
    combo_current,  \* self.cache_combo.currentIndex(); 0 is the placeholder
    dialog,         \* the last message box shown
    last,           \* the last call made: its inputs, the state it started
                    \* in and its outcome
    nAdds,          \* number of add_to_cache calls made so far
    nVaried,        \* number of those that were not the routine request
    nFaults         \* number of kills and of outside changes to CACHE_DIR

disk == <<index_file, cache_files>>
gui == <<proc, hanja_list, current_index, showing_hanja, is_running, timer,
         display, combo_items, combo_current, dialog>>
vars == <<index_file, cache_files, proc, hanja_list, current_index,
          showing_hanja, is_running, timer, display, combo_items,
          combo_current, dialog, last, nAdds, nVaried, nFaults>>

----------------------------------------------------------------------------
(* Bounds of the exploration. *)
MaxAdds == 21
MaxVaried == 1
MaxRows == 2
MaxLoads == 2
MaxFaults == 1
MaxFragments == 4

(* Program constants. *)
MaxCacheEntries == 20
SafeNameLimit == 50

----------------------------------------------------------------------------
(* Paths.  A path is a sequence of components; an absolute path starts     *)
(* with the component "/".                                                 *)
CACHE_DIR == <<"/", "home", ".hanja_memorizer">>

IsAbs(p) == p # <<>> /\ p[1] = "/"

\* os.path.join(a, b) for two arguments.
PathJoin(a, b) == IF IsAbs(b) THEN b ELSE a \o b

None == [kind |-> "None", data |-> <<>>]
Value(d) == [kind |-> "value", data |-> d]
Raised == [kind |-> "raised", data |-> <<>>]

----------------------------------------------------------------------------
(* Names. *)
\* A character outside printable ASCII is written "U+" and its code point
\* in at least four hexadecimal digits; so is the backtick.
HexDigits == <<"0", "1", "2", "3", "4", "5", "6", "7",
               "8", "9", "A", "B", "C", "D", "E", "F">>
RECURSIVE Hex(_, _)
Hex(n, width) ==
    IF n = 0 /\ width <= 0 THEN ""
    ELSE Hex(n \div 16, width - 1) \o HexDigits[(n % 16) + 1]
Char(cp) == "U+" \o Hex(cp, 4)

\* The surrogate code points U+D800..U+DFFF.  A str can hold them; the
\* utf-8 codec of a file opened with encoding='utf-8' refuses them.
Surrogates == {Char(cp) : cp \in \hD800..\hDFFF}
HasSurrogate(text) == \E i \in 1..Len(text) : text[i] \in Surrogates

\* The characters \w of a str pattern matches: what str.isalnum() accepts,
\* and "_".  In ASCII these are the letters, the digits and "_"; beyond
\* ASCII they are the code points of WordRanges (first and last code point
\* of each run, Unicode database 14.0.0 of the interpreter).  No unassigned,
\* private-use or surrogate code point is among them.
AsciiWordChars ==
    {"a", "b", "c", "d", "e", "f", "g", "h", "i", "j", "k", "l", "m",
     "n", "o", "p", "q", "r", "s", "t", "u", "v", "w", "x", "y", "z",
     "A", "B", "C", "D", "E", "F", "G", "H", "I", "J", "K", "L", "M",
     "N", "O", "P", "Q", "R", "S", "T", "U", "V", "W", "X", "Y", "Z",
     "0", "1", "2", "3", "4", "5", "6", "7", "8", "9", "_"}
WordRanges ==
    {<<\h00AA, \h00AA>>, <<\h00B2, \h00B3>>, <<\h00B5, \h00B5>>,
     <<\h00B9, \h00BA>>, <<\h00BC, \h00BE>>, <<\h00C0, \h00D6>>,
     <<\h00D8, \h00F6>>, <<\h00F8, \h02C1>>, <<\h02C6, \h02D1>>,
     <<\h02E0, \h02E4>>, <<\h02EC, \h02EC>>, <<\h02EE, \h02EE>>,
     <<\h0370, \h0374>>, <<\h0376, \h0377>>, <<\h037A, \h037D>>,
     <<\h037F, \h037F>>, <<\h0386, \h0386>>, <<\h0388, \h038A>>,
     <<\h038C, \h038C>>, <<\h038E, \h03A1>>, <<\h03A3, \h03F5>>,
     <<\h03F7, \h0481>>, <<\h048A, \h052F>>, <<\h0531, \h0556>>,
     <<\h0559, \h0559>>, <<\h0560, \h0588>>, <<\h05D0, \h05EA>>,
     <<\h05EF, \h05F2>>, <<\h0620, \h064A>>, <<\h0660, \h0669>>,
     <<\h066E, \h066F>>, <<\h0671, \h06D3>>, <<\h06D5, \h06D5>>,
     <<\h06E5, \h06E6>>, <<\h06EE, \h06FC>>, <<\h06FF, \h06FF>>,
     <<\h0710, \h0710>>, <<\h0712, \h072F>>, <<\h074D, \h07A5>>,
     <<\h07B1, \h07B1>>, <<\h07C0, \h07EA>>, <<\h07F4, \h07F5>>,
     <<\h07FA, \h07FA>>, <<\h0800, \h0815>>, <<\h081A, \h081A>>,
     <<\h0824, \h0824>>, <<\h0828, \h0828>>, <<\h0840, \h0858>>,
     <<\h0860, \h086A>>, <<\h0870, \h0887>>, <<\h0889, \h088E>>,
     <<\h08A0, \h08C9>>, <<\h0904, \h0939>>, <<\h093D, \h093D>>,
     <<\h0950, \h0950>>, <<\h0958, \h0961>>, <<\h0966, \h096F>>,
     <<\h0971, \h0980>>, <<\h0985, \h098C>>, <<\h098F, \h0990>>,
     <<\h0993, \h09A8>>, <<\h09AA, \h09B0>>, <<\h09B2, \h09B2>>,
     <<\h09B6, \h09B9>>, <<\h09BD, \h09BD>>, <<\h09CE, \h09CE>>,
     <<\h09DC, \h09DD>>, <<\h09DF, \h09E1>>, <<\h09E6, \h09F1>>,
     <<\h09F4, \h09F9>>, <<\h09FC, \h09FC>>, <<\h0A05, \h0A0A>>,
     <<\h0A0F, \h0A10>>, <<\h0A13, \h0A28>>, <<\h0A2A, \h0A30>>,
     <<\h0A32, \h0A33>>, <<\h0A35, \h0A36>>, <<\h0A38, \h0A39>>,
     <<\h0A59, \h0A5C>>, <<\h0A5E, \h0A5E>>, <<\h0A66, \h0A6F>>,
     <<\h0A72, \h0A74>>, <<\h0A85, \h0A8D>>, <<\h0A8F, \h0A91>>,
     <<\h0A93, \h0AA8>>, <<\h0AAA, \h0AB0>>, <<\h0AB2, \h0AB3>>,
     <<\h0AB5, \h0AB9>>, <<\h0ABD, \h0ABD>>, <<\h0AD0, \h0AD0>>,
     <<\h0AE0, \h0AE1>>, <<\h0AE6, \h0AEF>>, <<\h0AF9, \h0AF9>>,
     <<\h0B05, \h0B0C>>, <<\h0B0F, \h0B10>>, <<\h0B13, \h0B28>>,
     <<\h0B2A, \h0B30>>, <<\h0B32, \h0B33>>, <<\h0B35, \h0B39>>,
     <<\h0B3D, \h0B3D>>, <<\h0B5C, \h0B5D>>, <<\h0B5F, \h0B61>>,
     <<\h0B66, \h0B6F>>, <<\h0B71, \h0B77>>, <<\h0B83, \h0B83>>,
     <<\h0B85, \h0B8A>>, <<\h0B8E, \h0B90>>, <<\h0B92, \h0B95>>,
     <<\h0B99, \h0B9A>>, <<\h0B9C, \h0B9C>>, <<\h0B9E, \h0B9F>>,
     <<\h0BA3, \h0BA4>>, <<\h0BA8, \h0BAA>>, <<\h0BAE, \h0BB9>>,
     <<\h0BD0, \h0BD0>>, <<\h0BE6, \h0BF2>>, <<\h0C05, \h0C0C>>,
     <<\h0C0E, \h0C10>>, <<\h0C12, \h0C28>>, <<\h0C2A, \h0C39>>,
     <<\h0C3D, \h0C3D>>, <<\h0C58, \h0C5A>>, <<\h0C5D, \h0C5D>>,
     <<\h0C60, \h0C61>>, <<\h0C66, \h0C6F>>, <<\h0C78, \h0C7E>>,
     <<\h0C80, \h0C80>>, <<\h0C85, \h0C8C>>, <<\h0C8E, \h0C90>>,
     <<\h0C92, \h0CA8>>, <<\h0CAA, \h0CB3>>, <<\h0CB5, \h0CB9>>,
     <<\h0CBD, \h0CBD>>, <<\h0CDD, \h0CDE>>, <<\h0CE0, \h0CE1>>,
     <<\h0CE6, \h0CEF>>, <<\h0CF1, \h0CF2>>, <<\h0D04, \h0D0C>>,
     <<\h0D0E, \h0D10>>, <<\h0D12, \h0D3A>>, <<\h0D3D, \h0D3D>>,
     <<\h0D4E, \h0D4E>>, <<\h0D54, \h0D56>>, <<\h0D58, \h0D61>>,
     <<\h0D66, \h0D78>>, <<\h0D7A, \h0D7F>>, <<\h0D85, \h0D96>>,
     <<\h0D9A, \h0DB1>>, <<\h0DB3, \h0DBB>>, <<\h0DBD, \h0DBD>>,
     <<\h0DC0, \h0DC6>>, <<\h0DE6, \h0DEF>>, <<\h0E01, \h0E30>>,
     <<\h0E32, \h0E33>>, <<\h0E40, \h0E46>>, <<\h0E50, \h0E59>>,
     <<\h0E81, \h0E82>>, <<\h0E84, \h0E84>>, <<\h0E86, \h0E8A>>,
     <<\h0E8C, \h0EA3>>, <<\h0EA5, \h0EA5>>, <<\h0EA7, \h0EB0>>,
     <<\h0EB2, \h0EB3>>, <<\h0EBD, \h0EBD>>, <<\h0EC0, \h0EC4>>,
     <<\h0EC6, \h0EC6>>, <<\h0ED0, \h0ED9>>, <<\h0EDC, \h0EDF>>,
     <<\h0F00, \h0F00>>, <<\h0F20, \h0F33>>, <<\h0F40, \h0F47>>,
     <<\h0F49, \h0F6C>>, <<\h0F88, \h0F8C>>, <<\h1000, \h102A>>,
     <<\h103F, \h1049>>, <<\h1050, \h1055>>, <<\h105A, \h105D>>,
     <<\h1061, \h1061>>, <<\h1065, \h1066>>, <<\h106E, \h1070>>,
     <<\h1075, \h1081>>, <<\h108E, \h108E>>, <<\h1090, \h1099>>,
     <<\h10A0, \h10C5>>, <<\h10C7, \h10C7>>, <<\h10CD, \h10CD>>,
     <<\h10D0, \h10FA>>, <<\h10FC, \h1248>>, <<\h124A, \h124D>>,
     <<\h1250, \h1256>>, <<\h1258, \h1258>>, <<\h125A, \h125D>>,
     <<\h1260, \h1288>>, <<\h128A, \h128D>>, <<\h1290, \h12B0>>,
     <<\h12B2, \h12B5>>, <<\h12B8, \h12BE>>, <<\h12C0, \h12C0>>,
     <<\h12C2, \h12C5>>, <<\h12C8, \h12D6>>, <<\h12D8, \h1310>>,
     <<\h1312, \h1315>>, <<\h1318, \h135A>>, <<\h1369, \h137C>>,
     <<\h1380, \h138F>>, <<\h13A0, \h13F5>>, <<\h13F8, \h13FD>>,
     <<\h1401, \h166C>>, <<\h166F, \h167F>>, <<\h1681, \h169A>>,
     <<\h16A0, \h16EA>>, <<\h16EE, \h16F8>>, <<\h1700, \h1711>>,
     <<\h171F, \h1731>>, <<\h1740, \h1751>>, <<\h1760, \h176C>>,
     <<\h176E, \h1770>>, <<\h1780, \h17B3>>, <<\h17D7, \h17D7>>,
     <<\h17DC, \h17DC>>, <<\h17E0, \h17E9>>, <<\h17F0, \h17F9>>,
     <<\h1810, \h1819>>, <<\h1820, \h1878>>, <<\h1880, \h1884>>,
     <<\h1887, \h18A8>>, <<\h18AA, \h18AA>>, <<\h18B0, \h18F5>>,
     <<\h1900, \h191E>>, <<\h1946, \h196D>>, <<\h1970, \h1974>>,
     <<\h1980, \h19AB>>, <<\h19B0, \h19C9>>, <<\h19D0, \h19DA>>,
     <<\h1A00, \h1A16>>, <<\h1A20, \h1A54>>, <<\h1A80, \h1A89>>,
     <<\h1A90, \h1A99>>, <<\h1AA7, \h1AA7>>, <<\h1B05, \h1B33>>,
     <<\h1B45, \h1B4C>>, <<\h1B50, \h1B59>>, <<\h1B83, \h1BA0>>,
     <<\h1BAE, \h1BE5>>, <<\h1C00, \h1C23>>, <<\h1C40, \h1C49>>,
     <<\h1C4D, \h1C7D>>, <<\h1C80, \h1C88>>, <<\h1C90, \h1CBA>>,
     <<\h1CBD, \h1CBF>>, <<\h1CE9, \h1CEC>>, <<\h1CEE, \h1CF3>>,
     <<\h1CF5, \h1CF6>>, <<\h1CFA, \h1CFA>>, <<\h1D00, \h1DBF>>,
     <<\h1E00, \h1F15>>, <<\h1F18, \h1F1D>>, <<\h1F20, \h1F45>>,
     <<\h1F48, \h1F4D>>, <<\h1F50, \h1F57>>, <<\h1F59, \h1F59>>,
     <<\h1F5B, \h1F5B>>, <<\h1F5D, \h1F5D>>, <<\h1F5F, \h1F7D>>,
     <<\h1F80, \h1FB4>>, <<\h1FB6, \h1FBC>>, <<\h1FBE, \h1FBE>>,
     <<\h1FC2, \h1FC4>>, <<\h1FC6, \h1FCC>>, <<\h1FD0, \h1FD3>>,
     <<\h1FD6, \h1FDB>>, <<\h1FE0, \h1FEC>>, <<\h1FF2, \h1FF4>>,
     <<\h1FF6, \h1FFC>>, <<\h2070, \h2071>>, <<\h2074, \h2079>>,
     <<\h207F, \h2089>>, <<\h2090, \h209C>>, <<\h2102, \h2102>>,
     <<\h2107, \h2107>>, <<\h210A, \h2113>>, <<\h2115, \h2115>>,
     <<\h2119, \h211D>>, <<\h2124, \h2124>>, <<\h2126, \h2126>>,
     <<\h2128, \h2128>>, <<\h212A, \h212D>>, <<\h212F, \h2139>>,
     <<\h213C, \h213F>>, <<\h2145, \h2149>>, <<\h214E, \h214E>>,
     <<\h2150, \h2189>>, <<\h2460, \h249B>>, <<\h24EA, \h24FF>>,
     <<\h2776, \h2793>>, <<\h2C00, \h2CE4>>, <<\h2CEB, \h2CEE>>,
     <<\h2CF2, \h2CF3>>, <<\h2CFD, \h2CFD>>, <<\h2D00, \h2D25>>,
     <<\h2D27, \h2D27>>, <<\h2D2D, \h2D2D>>, <<\h2D30, \h2D67>>,
     <<\h2D6F, \h2D6F>>, <<\h2D80, \h2D96>>, <<\h2DA0, \h2DA6>>,
     <<\h2DA8, \h2DAE>>, <<\h2DB0, \h2DB6>>, <<\h2DB8, \h2DBE>>,
     <<\h2DC0, \h2DC6>>, <<\h2DC8, \h2DCE>>, <<\h2DD0, \h2DD6>>,
     <<\h2DD8, \h2DDE>>, <<\h2E2F, \h2E2F>>, <<\h3005, \h3007>>,
     <<\h3021, \h3029>>, <<\h3031, \h3035>>, <<\h3038, \h303C>>,
     <<\h3041, \h3096>>, <<\h309D, \h309F>>, <<\h30A1, \h30FA>>,
     <<\h30FC, \h30FF>>, <<\h3105, \h312F>>, <<\h3131, \h318E>>,
     <<\h3192, \h3195>>, <<\h31A0, \h31BF>>, <<\h31F0, \h31FF>>,
     <<\h3220, \h3229>>, <<\h3248, \h324F>>, <<\h3251, \h325F>>,
     <<\h3280, \h3289>>, <<\h32B1, \h32BF>>, <<\h3400, \h4DBF>>,
     <<\h4E00, \hA48C>>, <<\hA4D0, \hA4FD>>, <<\hA500, \hA60C>>,
     <<\hA610, \hA62B>>, <<\hA640, \hA66E>>, <<\hA67F, \hA69D>>,
     <<\hA6A0, \hA6EF>>, <<\hA717, \hA71F>>, <<\hA722, \hA788>>,
     <<\hA78B, \hA7CA>>, <<\hA7D0, \hA7D1>>, <<\hA7D3, \hA7D3>>,
     <<\hA7D5, \hA7D9>>, <<\hA7F2, \hA801>>, <<\hA803, \hA805>>,
     <<\hA807, \hA80A>>, <<\hA80C, \hA822>>, <<\hA830, \hA835>>,
     <<\hA840, \hA873>>, <<\hA882, \hA8B3>>, <<\hA8D0, \hA8D9>>,
     <<\hA8F2, \hA8F7>>, <<\hA8FB, \hA8FB>>, <<\hA8FD, \hA8FE>>,
     <<\hA900, \hA925>>, <<\hA930, \hA946>>, <<\hA960, \hA97C>>,
     <<\hA984, \hA9B2>>, <<\hA9CF, \hA9D9>>, <<\hA9E0, \hA9E4>>,
     <<\hA9E6, \hA9FE>>, <<\hAA00, \hAA28>>, <<\hAA40, \hAA42>>,
     <<\hAA44, \hAA4B>>, <<\hAA50, \hAA59>>, <<\hAA60, \hAA76>>,
     <<\hAA7A, \hAA7A>>, <<\hAA7E, \hAAAF>>, <<\hAAB1, \hAAB1>>,
     <<\hAAB5, \hAAB6>>, <<\hAAB9, \hAABD>>, <<\hAAC0, \hAAC0>>,
     <<\hAAC2, \hAAC2>>, <<\hAADB, \hAADD>>, <<\hAAE0, \hAAEA>>,
     <<\hAAF2, \hAAF4>>, <<\hAB01, \hAB06>>, <<\hAB09, \hAB0E>>,
     <<\hAB11, \hAB16>>, <<\hAB20, \hAB26>>, <<\hAB28, \hAB2E>>,
     <<\hAB30, \hAB5A>>, <<\hAB5C, \hAB69>>, <<\hAB70, \hABE2>>,
     <<\hABF0, \hABF9>>, <<\hAC00, \hD7A3>>, <<\hD7B0, \hD7C6>>,
     <<\hD7CB, \hD7FB>>, <<\hF900, \hFA6D>>, <<\hFA70, \hFAD9>>,
     <<\hFB00, \hFB06>>, <<\hFB13, \hFB17>>, <<\hFB1D, \hFB1D>>,
     <<\hFB1F, \hFB28>>, <<\hFB2A, \hFB36>>, <<\hFB38, \hFB3C>>,
     <<\hFB3E, \hFB3E>>, <<\hFB40, \hFB41>>, <<\hFB43, \hFB44>>,
     <<\hFB46, \hFBB1>>, <<\hFBD3, \hFD3D>>, <<\hFD50, \hFD8F>>,
     <<\hFD92, \hFDC7>>, <<\hFDF0, \hFDFB>>, <<\hFE70, \hFE74>>,
     <<\hFE76, \hFEFC>>, <<\hFF10, \hFF19>>, <<\hFF21, \hFF3A>>,
     <<\hFF41, \hFF5A>>, <<\hFF66, \hFFBE>>, <<\hFFC2, \hFFC7>>,
     <<\hFFCA, \hFFCF>>, <<\hFFD2, \hFFD7>>, <<\hFFDA, \hFFDC>>,
     <<\h10000, \h1000B>>, <<\h1000D, \h10026>>, <<\h10028, \h1003A>>,
     <<\h1003C, \h1003D>>, <<\h1003F, \h1004D>>, <<\h10050, \h1005D>>,
     <<\h10080, \h100FA>>, <<\h10107, \h10133>>, <<\h10140, \h10178>>,
     <<\h1018A, \h1018B>>, <<\h10280, \h1029C>>, <<\h102A0, \h102D0>>,
     <<\h102E1, \h102FB>>, <<\h10300, \h10323>>, <<\h1032D, \h1034A>>,
     <<\h10350, \h10375>>, <<\h10380, \h1039D>>, <<\h103A0, \h103C3>>,
     <<\h103C8, \h103CF>>, <<\h103D1, \h103D5>>, <<\h10400, \h1049D>>,
     <<\h104A0, \h104A9>>, <<\h104B0, \h104D3>>, <<\h104D8, \h104FB>>,
     <<\h10500, \h10527>>, <<\h10530, \h10563>>, <<\h10570, \h1057A>>,
     <<\h1057C, \h1058A>>, <<\h1058C, \h10592>>, <<\h10594, \h10595>>,
     <<\h10597, \h105A1>>, <<\h105A3, \h105B1>>, <<\h105B3, \h105B9>>,
     <<\h105BB, \h105BC>>, <<\h10600, \h10736>>, <<\h10740, \h10755>>,
     <<\h10760, \h10767>>, <<\h10780, \h10785>>, <<\h10787, \h107B0>>,
     <<\h107B2, \h107BA>>, <<\h10800, \h10805>>, <<\h10808, \h10808>>,
     <<\h1080A, \h10835>>, <<\h10837, \h10838>>, <<\h1083C, \h1083C>>,
     <<\h1083F, \h10855>>, <<\h10858, \h10876>>, <<\h10879, \h1089E>>,
     <<\h108A7, \h108AF>>, <<\h108E0, \h108F2>>, <<\h108F4, \h108F5>>,
     <<\h108FB, \h1091B>>, <<\h10920, \h10939>>, <<\h10980, \h109B7>>,
     <<\h109BC, \h109CF>>, <<\h109D2, \h10A00>>, <<\h10A10, \h10A13>>,
     <<\h10A15, \h10A17>>, <<\h10A19, \h10A35>>, <<\h10A40, \h10A48>>,
     <<\h10A60, \h10A7E>>, <<\h10A80, \h10A9F>>, <<\h10AC0, \h10AC7>>,
     <<\h10AC9, \h10AE4>>, <<\h10AEB, \h10AEF>>, <<\h10B00, \h10B35>>,
     <<\h10B40, \h10B55>>, <<\h10B58, \h10B72>>, <<\h10B78, \h10B91>>,
     <<\h10BA9, \h10BAF>>, <<\h10C00, \h10C48>>, <<\h10C80, \h10CB2>>,
     <<\h10CC0, \h10CF2>>, <<\h10CFA, \h10D23>>, <<\h10D30, \h10D39>>,
     <<\h10E60, \h10E7E>>, <<\h10E80, \h10EA9>>, <<\h10EB0, \h10EB1>>,
     <<\h10F00, \h10F27>>, <<\h10F30, \h10F45>>, <<\h10F51, \h10F54>>,
     <<\h10F70, \h10F81>>, <<\h10FB0, \h10FCB>>, <<\h10FE0, \h10FF6>>,
     <<\h11003, \h11037>>, <<\h11052, \h1106F>>, <<\h11071, \h11072>>,
     <<\h11075, \h11075>>, <<\h11083, \h110AF>>, <<\h110D0, \h110E8>>,
     <<\h110F0, \h110F9>>, <<\h11103, \h11126>>, <<\h11136, \h1113F>>,
     <<\h11144, \h11144>>, <<\h11147, \h11147>>, <<\h11150, \h11172>>,
     <<\h11176, \h11176>>, <<\h11183, \h111B2>>, <<\h111C1, \h111C4>>,
     <<\h111D0, \h111DA>>, <<\h111DC, \h111DC>>, <<\h111E1, \h111F4>>,
     <<\h11200, \h11211>>, <<\h11213, \h1122B>>, <<\h11280, \h11286>>,
     <<\h11288, \h11288>>, <<\h1128A, \h1128D>>, <<\h1128F, \h1129D>>,
     <<\h1129F, \h112A8>>, <<\h112B0, \h112DE>>, <<\h112F0, \h112F9>>,
     <<\h11305, \h1130C>>, <<\h1130F, \h11310>>, <<\h11313, \h11328>>,
     <<\h1132A, \h11330>>, <<\h11332, \h11333>>, <<\h11335, \h11339>>,
     <<\h1133D, \h1133D>>, <<\h11350, \h11350>>, <<\h1135D, \h11361>>,
     <<\h11400, \h11434>>, <<\h11447, \h1144A>>, <<\h11450, \h11459>>,
     <<\h1145F, \h11461>>, <<\h11480, \h114AF>>, <<\h114C4, \h114C5>>,
     <<\h114C7, \h114C7>>, <<\h114D0, \h114D9>>, <<\h11580, \h115AE>>,
     <<\h115D8, \h115DB>>, <<\h11600, \h1162F>>, <<\h11644, \h11644>>,
     <<\h11650, \h11659>>, <<\h11680, \h116AA>>, <<\h116B8, \h116B8>>,
     <<\h116C0, \h116C9>>, <<\h11700, \h1171A>>, <<\h11730, \h1173B>>,
     <<\h11740, \h11746>>, <<\h11800, \h1182B>>, <<\h118A0, \h118F2>>,
     <<\h118FF, \h11906>>, <<\h11909, \h11909>>, <<\h1190C, \h11913>>,
     <<\h11915, \h11916>>, <<\h11918, \h1192F>>, <<\h1193F, \h1193F>>,
     <<\h11941, \h11941>>, <<\h11950, \h11959>>, <<\h119A0, \h119A7>>,
     <<\h119AA, \h119D0>>, <<\h119E1, \h119E1>>, <<\h119E3, \h119E3>>,
     <<\h11A00, \h11A00>>, <<\h11A0B, \h11A32>>, <<\h11A3A, \h11A3A>>,
     <<\h11A50, \h11A50>>, <<\h11A5C, \h11A89>>, <<\h11A9D, \h11A9D>>,
     <<\h11AB0, \h11AF8>>, <<\h11C00, \h11C08>>, <<\h11C0A, \h11C2E>>,
     <<\h11C40, \h11C40>>, <<\h11C50, \h11C6C>>, <<\h11C72, \h11C8F>>,
     <<\h11D00, \h11D06>>, <<\h11D08, \h11D09>>, <<\h11D0B, \h11D30>>,
     <<\h11D46, \h11D46>>, <<\h11D50, \h11D59>>, <<\h11D60, \h11D65>>,
     <<\h11D67, \h11D68>>, <<\h11D6A, \h11D89>>, <<\h11D98, \h11D98>>,
     <<\h11DA0, \h11DA9>>, <<\h11EE0, \h11EF2>>, <<\h11FB0, \h11FB0>>,
     <<\h11FC0, \h11FD4>>, <<\h12000, \h12399>>, <<\h12400, \h1246E>>,
     <<\h12480, \h12543>>, <<\h12F90, \h12FF0>>, <<\h13000, \h1342E>>,
     <<\h14400, \h14646>>, <<\h16800, \h16A38>>, <<\h16A40, \h16A5E>>,
     <<\h16A60, \h16A69>>, <<\h16A70, \h16ABE>>, <<\h16AC0, \h16AC9>>,
     <<\h16AD0, \h16AED>>, <<\h16B00, \h16B2F>>, <<\h16B40, \h16B43>>,
     <<\h16B50, \h16B59>>, <<\h16B5B, \h16B61>>, <<\h16B63, \h16B77>>,
     <<\h16B7D, \h16B8F>>, <<\h16E40, \h16E96>>, <<\h16F00, \h16F4A>>,
     <<\h16F50, \h16F50>>, <<\h16F93, \h16F9F>>, <<\h16FE0, \h16FE1>>,
     <<\h16FE3, \h16FE3>>, <<\h17000, \h187F7>>, <<\h18800, \h18CD5>>,
     <<\h18D00, \h18D08>>, <<\h1AFF0, \h1AFF3>>, <<\h1AFF5, \h1AFFB>>,
     <<\h1AFFD, \h1AFFE>>, <<\h1B000, \h1B122>>, <<\h1B150, \h1B152>>,
     <<\h1B164, \h1B167>>, <<\h1B170, \h1B2FB>>, <<\h1BC00, \h1BC6A>>,
     <<\h1BC70, \h1BC7C>>, <<\h1BC80, \h1BC88>>, <<\h1BC90, \h1BC99>>,
     <<\h1D2E0, \h1D2F3>>, <<\h1D360, \h1D378>>, <<\h1D400, \h1D454>>,
     <<\h1D456, \h1D49C>>, <<\h1D49E, \h1D49F>>, <<\h1D4A2, \h1D4A2>>,
     <<\h1D4A5, \h1D4A6>>, <<\h1D4A9, \h1D4AC>>, <<\h1D4AE, \h1D4B9>>,
     <<\h1D4BB, \h1D4BB>>, <<\h1D4BD, \h1D4C3>>, <<\h1D4C5, \h1D505>>,
     <<\h1D507, \h1D50A>>, <<\h1D50D, \h1D514>>, <<\h1D516, \h1D51C>>,
     <<\h1D51E, \h1D539>>, <<\h1D53B, \h1D53E>>, <<\h1D540, \h1D544>>,
     <<\h1D546, \h1D546>>, <<\h1D54A, \h1D550>>, <<\h1D552, \h1D6A5>>,
     <<\h1D6A8, \h1D6C0>>, <<\h1D6C2, \h1D6DA>>, <<\h1D6DC, \h1D6FA>>,
     <<\h1D6FC, \h1D714>>, <<\h1D716, \h1D734>>, <<\h1D736, \h1D74E>>,
     <<\h1D750, \h1D76E>>, <<\h1D770, \h1D788>>, <<\h1D78A, \h1D7A8>>,
     <<\h1D7AA, \h1D7C2>>, <<\h1D7C4, \h1D7CB>>, <<\h1D7CE, \h1D7FF>>,
     <<\h1DF00, \h1DF1E>>, <<\h1E100, \h1E12C>>, <<\h1E137, \h1E13D>>,
     <<\h1E140, \h1E149>>, <<\h1E14E, \h1E14E>>, <<\h1E290, \h1E2AD>>,
     <<\h1E2C0, \h1E2EB>>, <<\h1E2F0, \h1E2F9>>, <<\h1E7E0, \h1E7E6>>,
     <<\h1E7E8, \h1E7EB>>, <<\h1E7ED, \h1E7EE>>, <<\h1E7F0, \h1E7FE>>,
     <<\h1E800, \h1E8C4>>, <<\h1E8C7, \h1E8CF>>, <<\h1E900, \h1E943>>,
     <<\h1E94B, \h1E94B>>, <<\h1E950, \h1E959>>, <<\h1EC71, \h1ECAB>>,
     <<\h1ECAD, \h1ECAF>>, <<\h1ECB1, \h1ECB4>>, <<\h1ED01, \h1ED2D>>,
     <<\h1ED2F, \h1ED3D>>, <<\h1EE00, \h1EE03>>, <<\h1EE05, \h1EE1F>>,
     <<\h1EE21, \h1EE22>>, <<\h1EE24, \h1EE24>>, <<\h1EE27, \h1EE27>>,
     <<\h1EE29, \h1EE32>>, <<\h1EE34, \h1EE37>>, <<\h1EE39, \h1EE39>>,
     <<\h1EE3B, \h1EE3B>>, <<\h1EE42, \h1EE42>>, <<\h1EE47, \h1EE47>>,
     <<\h1EE49, \h1EE49>>, <<\h1EE4B, \h1EE4B>>, <<\h1EE4D, \h1EE4F>>,
     <<\h1EE51, \h1EE52>>, <<\h1EE54, \h1EE54>>, <<\h1EE57, \h1EE57>>,
     <<\h1EE59, \h1EE59>>, <<\h1EE5B, \h1EE5B>>, <<\h1EE5D, \h1EE5D>>,
     <<\h1EE5F, \h1EE5F>>, <<\h1EE61, \h1EE62>>, <<\h1EE64, \h1EE64>>,
     <<\h1EE67, \h1EE6A>>, <<\h1EE6C, \h1EE72>>, <<\h1EE74, \h1EE77>>,
     <<\h1EE79, \h1EE7C>>, <<\h1EE7E, \h1EE7E>>, <<\h1EE80, \h1EE89>>,
     <<\h1EE8B, \h1EE9B>>, <<\h1EEA1, \h1EEA3>>, <<\h1EEA5, \h1EEA9>>,
     <<\h1EEAB, \h1EEBB>>, <<\h1F100, \h1F10C>>, <<\h1FBF0, \h1FBF9>>,
     <<\h20000, \h2A6DF>>, <<\h2A700, \h2B738>>, <<\h2B740, \h2B81D>>,
     <<\h2B820, \h2CEA1>>, <<\h2CEB0, \h2EBE0>>, <<\h2F800, \h2FA1D>>,
     <<\h30000, \h3134A>>}
WordChars ==
    AsciiWordChars
    \cup {Char(cp) : cp \in UNION {r[1]..r[2] : r \in WordRanges}}

\* c is matched by \w
IsWordChar(c) == c \in WordChars

Xs(n) == [i \in 1..n |-> "x"]
RoutineName == <<"d", "a", "t", "a">>
LongName == Xs(49) \o <<"/", "y">>
ShortName == Xs(49) \o <<"_">>
\* a name that is one surrogate
SurrogateName == <<"U+D800">>

(* Source identifiers: the local file /n/data.xlsx, n written as str(n)    *)
(* writes it.                                                              *)
DigitChars == <<"0", "1", "2", "3", "4", "5", "6", "7", "8", "9">>
RECURSIVE Decimal(_)
Decimal(n) ==
    IF n < 10 THEN <<DigitChars[n + 1]>>
    ELSE Decimal(n \div 10) \o <<DigitChars[(n % 10) + 1]>>
FilePath(n) ==
    <<"/">> \o Decimal(n) \o <<"/">> \o RoutineName \o <<".", "x", "l", "s", "x">>
HotPaths == {FilePath(1), FilePath(2)}
\* a path with a surrogate, as os.fsdecode makes of a byte that is not utf-8
SurrogatePath == <<"/", "U+DC80", ".", "x", "l", "s", "x">>

(* Readings of datetime.now(), formatted "%Y%m%d_%H%M%S". *)
T0 == "20260101_000000"
T1 == "20260101_000001"
Times == {T0, T1}

----------------------------------------------------------------------------
(* File contents.  json.dump(v, f, ensure_ascii=False) writes the document *)
(* of v piece by piece into a file that open(..., 'w', encoding='utf-8')   *)
(* has emptied.  A string with a surrogate raises UnicodeEncodeError when   *)
(* its piece is written: the file is left with the pieces before it, which *)
(* json.load rejects, as it rejects a file that was emptied and never      *)
(* written.                                                                *)
Truncated == [kind |-> "truncated", value |-> <<>>]
Absent == [kind |-> "absent", value |-> <<>>]

\* The strings of a document: the fields of the records of a dataset, or
\* the name, source kind, source identifier, file reference and time of the
\* entries of an index.
Texts(v) ==
    UNION {IF "hanja" \in DOMAIN v[i]
           THEN {v[i].hanja, v[i].reading, v[i].meaning}
           ELSE {v[i].name, v[i].source_type, v[i].source_path,
                 v[i].cache_file[1], <<v[i].cached_at>>} : i \in 1..Len(v)}

\* json.dump(v, f, ensure_ascii=False) raises
DumpRaises(v) == \E text \in Texts(v) : HasSurrogate(text)

\* What the file holds after json.dump(v, f, ensure_ascii=False)
JsonDump(v) ==
    IF DumpRaises(v) THEN Truncated ELSE [kind |-> "json", value |-> v]

JsonParses(content) == content.kind = "json"
JsonLoad(content) == content.value

----------------------------------------------------------------------------
(* Records of a dataset. *)
Rec(h, r, m) == [hanja |-> h, reading |-> r, meaning |-> m]
Han == <<"h", "a", "n">>
Chinese == <<"C", "h", "i", "n", "e", "s", "e">>
D1 == << Rec(<<"U+6F22">>, Han, Chinese) >>
D2 == << Rec(<<"U+5B57">>, <<"j", "a">>, <<"l", "e", "t", "t", "e", "r">>), Rec(<<"U+6F22">>, Han, Chinese) >>
\* a dataset with a record whose character is a surrogate
D3 == << Rec(<<"U+DC00">>, Han, Chinese) >>

\* The source kinds the two loaders pass.
Local == <<"l", "o", "c", "a", "l">>
Google == <<"g", "o", "o", "g", "l", "e">>

----------------------------------------------------------------------------
(* Cache store. *)

\* re.sub(r'[^\w\-_]', '_', name)[:50]
Sanitize(name) ==
    [i \in 1..Len(name) |->
        IF IsWordChar(name[i]) \/ name[i] \in {"-", "_"} THEN name[i] ELSE "_"]

Truncate(s, n) == SubSeq(s, 1, IF Len(s) < n THEN Len(s) ELSE n)

SafeName(name) == Truncate(Sanitize(name), SafeNameLimit)

\* f"{safe_name}_{timestamp}.json", as a one-component relative path
CacheFilename(name, timestamp) ==
    << SafeName(name) \o <<"_", timestamp, ".json">> >>

\* (fault) json.load's exception is not caught
ReadIndex_NoExcept(file) ==
    IF file.kind = "absent" THEN Value(<<>>)
    ELSE IF JsonParses(file) THEN Value(JsonLoad(file))
    ELSE Raised

\* load_cache_index() when the index file holds file: index["files"] of the
\* parsed index, of {"files": []} when the file is absent or json.load raises.
ReadIndex(file) ==
    IF file.kind = "absent" THEN Value(<<>>)
    ELSE IF JsonParses(file) THEN Value(JsonLoad(file))
    ELSE Value(<<>>)

load_cache_index == ReadIndex(index_file)

\* index["files"] without the entries of source_path
RemoveSource(files, source_path) ==
    LET Keep(f) == f.source_path # source_path
    IN  SelectSeq(files, Keep)

NewEntry(name, source_type, source_path, cache_filename, timestamp, data) ==
    [name |-> name, source_type |-> source_type, source_path |-> source_path,
     cache_file |-> cache_filename, cached_at |-> timestamp, count |-> Len(data)]

\* (fault) the cap is not applied
Kept_NoCap(files) == files

\* index["files"][:20] and index["files"][20:]
Kept(files) == Truncate(files, MaxCacheEntries)
OldFiles(files) ==
    IF Len(files) > MaxCacheEntries
    THEN SubSeq(files, MaxCacheEntries + 1, Len(files))
    ELSE <<>>

\* old_path of each old entry, in the order of the loop of lines 92-95
OldPaths(files) ==
    [i \in 1..Len(OldFiles(files)) |->
        PathJoin(CACHE_DIR, OldFiles(files)[i].cache_file)]

WriteFile(fs, path, content) ==
    [p \in DOMAIN fs \cup {path} |-> IF p = path THEN content ELSE fs[p]]

RemoveFiles(fs, paths) == [p \in DOMAIN fs \ paths |-> fs[p]]

\* index["files"] as add_to_cache builds it before the cap is applied
Inserted(files, name, source_type, source_path, data, timestamp) ==
    << NewEntry(name, source_type, source_path,
                CacheFilename(name, timestamp), timestamp, data) >>
    \o RemoveSource(files, source_path)

\* The loop of lines 92-95 over the paths of the old entries: a path that
\* does not exist is passed over, and os.remove (a file that is a directory,
\* is held open elsewhere or may not be deleted) either removes the file or
\* raises.  Each outcome is the files left and whether os.remove raised.
RECURSIVE RemoveOld(_, _)
RemoveOld(fs, paths) ==
    IF paths = <<>> THEN {[cache_files |-> fs, raised |-> FALSE]}
    ELSE IF Head(paths) \notin DOMAIN fs THEN RemoveOld(fs, Tail(paths))
    ELSE {[cache_files |-> fs, raised |-> TRUE]}
         \cup RemoveOld(RemoveFiles(fs, {Head(paths)}), Tail(paths))

\* add_to_cache(name, source_type, source_path, data) with datetime.now()
\* reading timestamp: its outcomes, each the files it leaves, what it returns
\* and the line an exception left it at (0 when none did).  json.dump of the
\* data raises at line 68 with the cache file cut short and the index as it
\* was; os.remove raises at line 95 with the cache file written, the index
\* as it was and the old files before the failing one removed; json.dump of
\* the index raises at line 53 with the old files removed and the index file
\* cut short.
add_to_cache(name, source_type, source_path, data, timestamp) ==
    LET cache_filepath == PathJoin(CACHE_DIR, CacheFilename(name, timestamp))
        written == WriteFile(cache_files, cache_filepath, JsonDump(data))
        index == load_cache_index
        files == Inserted(index.data, name, source_type, source_path, data, timestamp)
    IN  IF DumpRaises(data)
        THEN {[cache_files |-> written, index_file |-> index_file,
               ret |-> Raised, line |-> 68]}
        ELSE IF index.kind = "raised"
        THEN {[cache_files |-> written, index_file |-> index_file,
               ret |-> Raised, line |-> 71]}
        ELSE {IF old.raised
              THEN [cache_files |-> old.cache_files, index_file |-> index_file,
                    ret |-> Raised, line |-> 95]
              ELSE IF DumpRaises(Kept(files))
              THEN [cache_files |-> old.cache_files,
                    index_file |-> JsonDump(Kept(files)),
                    ret |-> Raised, line |-> 53]
              ELSE [cache_files |-> old.cache_files,
                    index_file |-> JsonDump(Kept(files)),
                    ret |-> Value(cache_filepath), line |-> 0]
              : old \in RemoveOld(written, OldPaths(files))}

\* (fault) the file is opened without the os.path.exists test
load_from_cache_NoExistsTest(cache_filename) ==
    LET cache_filepath == PathJoin(CACHE_DIR, cache_filename)
    IN  IF cache_filepath \in DOMAIN cache_files
           /\ JsonParses(cache_files[cache_filepath])
        THEN Value(JsonLoad(cache_files[cache_filepath]))
        ELSE Raised

\* load_from_cache(cache_filename): json.load's exception is not caught
load_from_cache(cache_filename) ==
    LET cache_filepath == PathJoin(CACHE_DIR, cache_filename)
    IN  IF cache_filepath \in DOMAIN cache_files
        THEN IF JsonParses(cache_files[cache_filepath])
             THEN Value(JsonLoad(cache_files[cache_filepath]))
             ELSE Raised
        ELSE None


----------------------------------------------------------------------------
(* Dataset loader.  A cell of a data frame is a missing value (NaN, None), *)
(* a string or a number; s is what str() makes of it.  A data frame has    *)
(* ncols columns and its rows have one cell per column.                    *)
NaN == [t |-> "nan", s |-> <<"n", "a", "n">>]
StrCell(s) == [t |-> "str", s |-> s]
NumCell(s) == [t |-> "num", s |-> s]

\* The header label of the character column (U+D55C U+C790).
HeaderLabel == <<"U+D55C", "U+C790">>

\* pd.notna(cell)
NotNa(cell) == cell.t # "nan"

\* str(row.iloc[i]) if pd.notna(row.iloc[i]) else ""
CellText(cell) == IF NotNa(cell) THEN cell.s ELSE <<>>

\* (fault) the header row is not recognised
IsHanja_NoHeaderTest(hanja) == hanja # <<>> /\ hanja # <<"n", "a", "n">>

\* if hanja and hanja != "nan" and hanja != <header label>
IsHanja(hanja) ==
    hanja # <<>> /\ hanja # <<"n", "a", "n">> /\ hanja # HeaderLabel

\* The records one row contributes: row.iloc[3] raises IndexError on a row of
\* fewer than four cells, and the row is skipped.
ParseRow(row) ==
    IF Len(row) < 4 THEN <<>>
    ELSE IF IsHanja(CellText(row[2]))
         THEN << Rec(CellText(row[2]), CellText(row[3]), CellText(row[4])) >>
         ELSE <<>>

RECURSIVE ParseRows(_)
ParseRows(rows) ==
    IF rows = <<>> THEN <<>>
    ELSE ParseRow(Head(rows)) \o ParseRows(Tail(rows))

\* HanjaMemorizer.parse_dataframe(df)
parse_dataframe(df) == ParseRows(df.rows)

(* Data frames explored: frames as pd.read_excel and pd.read_csv deliver    *)
(* them.  With the default NA handling of both, a cell without content and *)
(* a cell whose text is "nan" arrive as the missing value NaN; a cell of    *)
(* blanks arrives as text.                                                 *)
HanjaCells == {NaN, StrCell(<<" ">>), StrCell(HeaderLabel),
               StrCell(<<"U+6F22">>), NumCell(<<"5">>)}
ReadingCells == {NaN, StrCell(<<" ">>), StrCell(Han)}
MeaningCells == {NaN, StrCell(Chinese)}

Rows4 == {<<NumCell(<<"1">>), h, r, m>> :
            h \in HanjaCells, r \in ReadingCells, m \in MeaningCells}
Rows3 == {<<NumCell(<<"1">>), h, r>> :
            h \in {StrCell(<<"U+6F22">>), NaN}, r \in ReadingCells}

\* The sequences over S of length at most n.
SeqsUpTo(S, n) == UNION {[1..k -> S] : k \in 0..n}

DataFrames ==
    {[ncols |-> 4, rows |-> rows] : rows \in SeqsUpTo(Rows4, MaxRows)}
    \cup {[ncols |-> 3, rows |-> rows] : rows \in SeqsUpTo(Rows3, MaxRows)}

----------------------------------------------------------------------------
(* Record of a call: the operation, its arguments, the state it started    *)
(* in, what it returned and whether an exception left it.                  *)
Snapshot == [index_file |-> index_file, cache_files |-> cache_files,
             hanja_list |-> hanja_list, current_index |-> current_index,
             showing_hanja |-> showing_hanja, display |-> display]

Call(op, args, ret, escaped) ==
    [op |-> op, args |-> args, before |-> Snapshot, ret |-> ret,
     escaped |-> escaped]

NoCall == [op |-> "none", args |-> <<>>,
           before |-> [index_file |-> Absent, cache_files |-> <<>>,
                       hanja_list |-> <<>>, current_index |-> 0,
                       showing_hanja |-> TRUE, display |-> "placeholder"],
           ret |-> None, escaped |-> FALSE]

----------------------------------------------------------------------------
(* Requests explored.  The routine request adds the next local file that   *)
(* is not in the index, under the same name and in the same second; at     *)
(* most MaxVaried requests of a run are others: a source that may already  *)
(* be indexed, another name, another second, other records, or a string    *)
(* with a surrogate as name, as source identifier or in a record.  At most *)
(* MaxFaults calls of a run have os.remove raise.                          *)
SourcesOf(files) == {files[i].source_path : i \in 1..Len(files)}

FreshPath ==
    LET used == SourcesOf(load_cache_index.data)
    IN  FilePath(CHOOSE n \in 1..(MaxCacheEntries + 1) :
            /\ FilePath(n) \notin used
            /\ \A m \in 1..(n - 1) : FilePath(m) \in used)

Routine == [name |-> RoutineName, source_type |-> Local, data |-> D1, timestamp |-> T0]

Profiles == {
    Routine,
    [name |-> RoutineName, source_type |-> Local, data |-> D2, timestamp |-> T0],
    [name |-> RoutineName, source_type |-> Google, data |-> D1, timestamp |-> T1],
    [name |-> LongName, source_type |-> Google, data |-> D2, timestamp |-> T0],
    [name |-> ShortName, source_type |-> Local, data |-> D1, timestamp |-> T0] }

\* Requests with a surrogate in the name or in a record.
Unencodable == {
    [name |-> SurrogateName, source_type |-> Local, data |-> D1, timestamp |-> T0],
    [name |-> RoutineName, source_type |-> Local, data |-> D3, timestamp |-> T1] }

\* The requests explored when fresh is the next file not in the index.
Requests(fresh) ==
    {[profile |-> r, source_path |-> p] : r \in Profiles, p \in HotPaths \cup {fresh}}
    \cup {[profile |-> r, source_path |-> p] : r \in Unencodable, p \in {FilePath(1), fresh}}
    \cup {[profile |-> Routine, source_path |-> SurrogatePath]}

AddToCache ==
    /\ nAdds < MaxAdds
    /\ LET fresh == FreshPath
       IN  \E q \in Requests(fresh) :
            LET r == q.profile
                routine == (r = Routine /\ q.source_path = fresh)
            IN  /\ routine \/ nVaried < MaxVaried
                /\ \E done \in add_to_cache(r.name, r.source_type, q.source_path,
                                             r.data, r.timestamp) :
                    /\ done.line = 95 => nFaults < MaxFaults
                    /\ index_file' = done.index_file
                    /\ cache_files' = done.cache_files
                    /\ last' = Call("add_to_cache",
                                    [name |-> r.name, source_type |-> r.source_type,
                                     source_path |-> q.source_path, data |-> r.data,
                                     timestamp |-> r.timestamp, line |-> done.line],
                                    done.ret, done.ret = Raised)
                    /\ nFaults' = IF done.line = 95 THEN nFaults + 1 ELSE nFaults
                /\ nAdds' = nAdds + 1
                /\ nVaried' = IF routine THEN nVaried ELSE nVaried + 1
                /\ UNCHANGED gui

\* HanjaMemorizer.__init__ up to init_ui
InitWindow ==
    /\ proc = "up"
    /\ hanja_list = <<>>
    /\ current_index = 0
    /\ showing_hanja = TRUE
    /\ is_running = FALSE
    /\ timer = "stopped"
    /\ display = "placeholder"
    /\ dialog = "none"

\* An empty cache directory; no call of the cache store made.
Init ==
    /\ index_file = Absent
    /\ cache_files = << >>
    /\ InitWindow
    /\ combo_items = <<>>
    /\ combo_current = 0
    /\ last = NoCall
    /\ nAdds = 0
    /\ nVaried = 0
    /\ nFaults = 0

Next == AddToCache

Spec == Init /\ [][Next]_vars

\* parse_dataframe applied to a data frame
ParseDataframe ==
    /\ last.op = "none"
    /\ \E df \in DataFrames :
        /\ last' = Call("parse_dataframe", [df |-> df], Value(parse_dataframe(df)), FALSE)
        /\ UNCHANGED <<disk, gui, nAdds, nVaried, nFaults>>

SpecParse == Init /\ [][ParseDataframe]_vars

----------------------------------------------------------------------------
(* Sheet URLs.  A URL is a sequence of one-character strings; "U+00E9"     *)
(* stands for a character outside ASCII.                                   *)

\* [a-zA-Z0-9-_]
IdChars ==
    {"a", "b", "c", "d", "e", "f", "g", "h", "i", "j", "k", "l", "m",
     "n", "o", "p", "q", "r", "s", "t", "u", "v", "w", "x", "y", "z",
     "A", "B", "C", "D", "E", "F", "G", "H", "I", "J", "K", "L", "M",
     "N", "O", "P", "Q", "R", "S", "T", "U", "V", "W", "X", "Y", "Z",
     "0", "1", "2", "3", "4", "5", "6", "7", "8", "9", "-", "_"}

\* The literal parts of the two patterns.
PathMarker == <<"/", "s", "p", "r", "e", "a", "d", "s", "h", "e", "e", "t", "s", "/", "d", "/">>
QueryMarker == <<"i", "d", "=">>

\* url has the literal lit at position i
StartsAt(url, i, lit) ==
    /\ i + Len(lit) - 1 <= Len(url)
    /\ SubSeq(url, i, i + Len(lit) - 1) = lit

\* What [a-zA-Z0-9-_]+ consumes from position j: the longest run of
\* identifier characters, empty when there is none.
RunFrom(url, j) ==
    LET stops == {k \in j..(Len(url) + 1) :
                    k = Len(url) + 1 \/ url[k] \notin IdChars}
        stop == CHOOSE k \in stops : \A m \in stops : k <= m
    IN  SubSeq(url, j, stop - 1)

\* re.search(lit + '([a-zA-Z0-9-_]+)', url): group 1 of the leftmost match.
Search(lit, url) ==
    LET hits == {i \in 1..Len(url) :
                    StartsAt(url, i, lit) /\ RunFrom(url, i + Len(lit)) # <<>>}
        first == CHOOSE i \in hits : \A m \in hits : i <= m
    IN  IF hits = {} THEN None ELSE Value(RunFrom(url, first + Len(lit)))

\* (fault) the query-parameter pattern is not tried
extract_google_sheet_id_PathOnly(url) == Search(PathMarker, url)

\* extract_google_sheet_id(url): the patterns are tried in their order.
extract_google_sheet_id(url) ==
    IF Search(PathMarker, url) # None THEN Search(PathMarker, url)
    ELSE IF Search(QueryMarker, url) # None THEN Search(QueryMarker, url)
    ELSE None

\* f"https://docs.google.com/spreadsheets/d/{sheet_id}/export?format=csv&gid={gid}"
ExportUrl(sheet_id, gid) ==
    <<"https://docs.google.com/spreadsheets/d/">> \o sheet_id
    \o <<"/export?format=csv&gid=", gid>>

\* get_google_sheet_csv_url(sheet_url, gid)
get_google_sheet_csv_url(sheet_url, gid) ==
    LET sheet_id == extract_google_sheet_id(sheet_url)
    IN  IF sheet_id # None /\ sheet_id.data # <<>>
        THEN Value(ExportUrl(sheet_id.data, gid))
        ELSE None

(* URLs explored: up to MaxFragments of these fragments, one after another. *)
Host == <<"h", "t", "t", "p", "s", ":", "/", "/", "d", "o", "c", "s", ".",
          "g", "o", "o", "g", "l", "e", ".", "c", "o", "m">>
Fragments ==
    {Host, PathMarker, QueryMarker,
     <<"A", "B", "C", "1", "2", "3">>, <<"-", "_", "z">>,
     <<"/", "e", "d", "i", "t">>, <<"?", "g">>, <<"U+00E9">>}

RECURSIVE Flatten(_)
Flatten(parts) == IF parts = <<>> THEN <<>> ELSE Head(parts) \o Flatten(Tail(parts))

Urls == {Flatten(parts) : parts \in SeqsUpTo(Fragments, MaxFragments)}

\* get_google_sheet_csv_url applied to a URL, gid left at its default
GetGoogleSheetCsvUrl ==
    /\ last.op = "none"
    /\ \E sheet_url \in Urls :
        /\ last' = Call("get_google_sheet_csv_url", [sheet_url |-> sheet_url],
                        get_google_sheet_csv_url(sheet_url, "0"), FALSE)
        /\ UNCHANGED <<disk, gui, nAdds, nVaried, nFaults>>

SpecUrl == Init /\ [][GetGoogleSheetCsvUrl]_vars

----------------------------------------------------------------------------
(* Main window.  A handler runs while the process is up; dialog is the     *)
(* message box it shows, "none" when it shows none.                        *)

\* os.path.splitext(os.path.basename(file_path))[0]
BaseName(path) ==
    LET slashes == {i \in 1..Len(path) : path[i] = "/"}
        start == IF slashes = {} THEN 1
                 ELSE (CHOOSE i \in slashes : \A j \in slashes : j <= i) + 1
    IN  SubSeq(path, start, Len(path))

\* os.path.splitext(p)[0]: p up to its last dot, when that dot is behind the
\* last separator and a character other than a dot stands between them.
SplitExt(p) ==
    LET slashes == {i \in 1..Len(p) : p[i] = "/"}
        dots == {i \in 1..Len(p) : p[i] = "."}
        sepIndex == IF slashes = {} THEN 0
                    ELSE CHOOSE i \in slashes : \A j \in slashes : j <= i
        dotIndex == IF dots = {} THEN 0
                    ELSE CHOOSE i \in dots : \A j \in dots : j <= i
    IN  IF /\ dotIndex > sepIndex
           /\ \E k \in (sepIndex + 1)..(dotIndex - 1) : p[k] # "."
        THEN SubSeq(p, 1, dotIndex - 1)
        ELSE p
Stem(path) == SplitExt(BaseName(path))

\* The orders random.shuffle can leave a list in.
Shuffles(list) ==
    {[i \in 1..Len(list) |-> list[f[i]]] :
        f \in {g \in [1..Len(list) -> 1..Len(list)] :
                    \A i, j \in 1..Len(list) : g[i] = g[j] => i = j}}

\* Spreadsheets read by pd.read_excel: one without a valid row, one with
\* one and one with two.
HeaderRow == <<StrCell(<<"n", "o">>), StrCell(HeaderLabel),
               StrCell(<<"r", "e", "a", "d", "i", "n", "g">>), StrCell(<<"m", "e", "a", "n", "i", "n", "g">>)>>
FrameNone == [ncols |-> 4, rows |-> <<HeaderRow, <<NumCell(<<"1">>), NaN, NaN, NaN>> >>]
FrameOne == [ncols |-> 4,
             rows |-> <<HeaderRow,
                        <<NumCell(<<"1">>), StrCell(<<"U+6F22">>), StrCell(Han), StrCell(Chinese)>> >>]
FrameTwo == [ncols |-> 4,
             rows |-> << <<NumCell(<<"1">>), StrCell(<<"U+5B57">>), StrCell(<<"j", "a">>), NaN>>,
                         <<NumCell(<<"2">>), StrCell(<<"U+6F22">>), StrCell(Han), StrCell(Chinese)>> >>]
ReadError == [ncols |-> 0, rows |-> <<>>]
Reads == {ReadError, FrameNone, FrameOne, FrameTwo}

\* (fault) no exception of the read reaches the handler
ReadRaises_Never(read) == FALSE

\* pd.read_excel / pd.read_csv raises
ReadRaises(read) == read = ReadError

LocalFiles == {FilePath(1), FilePath(2)}

\* The process is gone: nothing of the window is left.
ProcessDown ==
    /\ proc' = "down"
    /\ hanja_list' = <<>>
    /\ current_index' = 0
    /\ showing_hanja' = TRUE
    /\ is_running' = FALSE
    /\ timer' = "stopped"
    /\ display' = "placeholder"
    /\ combo_items' = <<>>
    /\ combo_current' = 0
    /\ dialog' = "none"

\* main(): HanjaMemorizer.__init__, which ends with load_cache_dropdown; an
\* exception there ends the process.
Restart ==
    /\ proc = "down"
    /\ LET index == load_cache_index
       IN  IF index.kind = "raised"
           THEN /\ ProcessDown
                /\ last' = Call("restart", <<>>, Raised, TRUE)
           ELSE /\ proc' = "up"
                /\ hanja_list' = <<>>
                /\ current_index' = 0
                /\ showing_hanja' = TRUE
                /\ is_running' = FALSE
                /\ timer' = "stopped"
                /\ display' = "placeholder"
                /\ combo_items' = index.data
                /\ combo_current' = 0
                /\ dialog' = "none"
                /\ last' = Call("restart", <<>>, None, FALSE)
    /\ UNCHANGED <<disk, nAdds, nVaried, nFaults>>

\* on_data_loaded, self.hanja_list being set and not empty: the position is
\* reset and show_current_hanja shows the character of the first record.
on_data_loaded ==
    /\ current_index' = 0
    /\ display' = "hanja"
    /\ UNCHANGED <<showing_hanja, is_running, timer>>

\* The user picks an item of the cache dropdown.
SelectCache ==
    \E i \in 0..Len(combo_items) :
        /\ proc = "up"
        /\ i # combo_current
        /\ combo_current' = i
        /\ last' = Call("select", [index |-> i], None, FALSE)
        /\ UNCHANGED <<disk, proc, hanja_list, current_index, showing_hanja,
                       is_running, timer, display, combo_items, dialog,
                       nAdds, nVaried, nFaults>>

\* self.cache_combo.currentData()
CurrentData == IF combo_current = 0 THEN None ELSE Value(combo_items[combo_current])

\* load_from_cache_selected.  An exception leaves the handler: the process
\* goes on or is aborted, as the Qt binding has it.
LoadFromCacheSelected ==
    /\ proc = "up"
    /\ LET file_info == CurrentData
           data == IF file_info = None THEN None
                   ELSE load_from_cache(file_info.data.cache_file)
           record(escaped) == Call("load_from_cache_selected",
                                   [file_info |-> file_info], data, escaped)
       IN  IF file_info = None
           THEN /\ dialog' = "select_file"
                /\ last' = record(FALSE)
                /\ UNCHANGED <<proc, hanja_list, current_index, showing_hanja,
                               is_running, timer, display, combo_items,
                               combo_current>>
           ELSE IF data = Raised
           THEN /\ last' = record(TRUE)
                /\ \/ /\ dialog' = "none"
                      /\ UNCHANGED <<proc, hanja_list, current_index, showing_hanja,
                                     is_running, timer, display, combo_items,
                                     combo_current>>
                   \/ ProcessDown
           ELSE IF data = None \/ data.data = <<>>
           THEN /\ dialog' = "cache_not_found"
                /\ last' = record(FALSE)
                /\ UNCHANGED <<proc, hanja_list, current_index, showing_hanja,
                               is_running, timer, display, combo_items,
                               combo_current>>
           ELSE /\ hanja_list' \in Shuffles(data.data)
                /\ on_data_loaded
                /\ dialog' = "none"
                /\ last' = record(FALSE)
                /\ UNCHANGED <<proc, combo_items, combo_current>>
    /\ UNCHANGED <<disk, nAdds, nVaried, nFaults>>

\* load_local_excel with the file dialog returning file_path, pd.read_excel
\* returning read (or raising) and datetime.now() reading timestamp.
load_local_excel(file_path, read, timestamp) ==
        /\ proc = "up"
        /\ nAdds < MaxLoads
        /\ LET data == parse_dataframe(read)
               name == Stem(file_path)
               record(ret) == Call("load_local_excel",
                                   [file_path |-> file_path, read |-> read,
                                    data |-> data, name |-> name,
                                    timestamp |-> timestamp], ret, FALSE)
               same == UNCHANGED <<proc, hanja_list, current_index, showing_hanja,
                                   is_running, timer, display, combo_items,
                                   combo_current>>
           IN  IF file_path = <<>>
               THEN /\ read = ReadError /\ timestamp = T0
                    /\ dialog' = "none"
                    /\ last' = record(None)
                    /\ same
                    /\ UNCHANGED <<disk, nAdds>>
               ELSE IF ReadRaises(read)
               THEN /\ timestamp = T0
                    /\ dialog' = "read_error"
                    /\ last' = record(None)
                    /\ same
                    /\ UNCHANGED <<disk, nAdds>>
               ELSE IF data = <<>>
               THEN /\ timestamp = T0
                    /\ dialog' = "none"
                    /\ last' = record(None)
                    /\ same
                    /\ UNCHANGED <<disk, nAdds>>
               ELSE \E done \in add_to_cache(name, Local, file_path, data, timestamp) :
                    /\ index_file' = done.index_file
                    /\ cache_files' = done.cache_files
                    /\ nAdds' = nAdds + 1
                    /\ last' = record(done.ret)
                    /\ IF done.ret = Raised
                       THEN /\ dialog' = "read_error"
                            /\ same
                       ELSE /\ hanja_list' \in Shuffles(data)
                            /\ on_data_loaded
                            /\ IF ReadIndex(done.index_file) = Raised
                               THEN /\ dialog' = "read_error"
                                    /\ UNCHANGED <<combo_items, combo_current>>
                               ELSE /\ combo_items' = ReadIndex(done.index_file).data
                                    /\ combo_current' = 0
                                    /\ dialog' = "loaded"
                            /\ UNCHANGED proc
        /\ UNCHANGED <<nVaried, nFaults>>

LoadLocalExcel ==
    \E file_path \in LocalFiles \cup {<<>>}, read \in Reads, timestamp \in Times :
        load_local_excel(file_path, read, timestamp)

\* load_local_excel on the one file FilePath(1), whose content may have
\* changed since it was last opened, all within one second.
ReloadLocalExcel ==
    \E read \in Reads : load_local_excel(FilePath(1), read, T0)

\* str.strip(): the text without its leading and trailing whitespace.
Whitespace ==
    {"\t", "\n", "U+000B", "\f", "\r", "U+001C", "U+001D", "U+001E",
     "U+001F", " ", "U+0085", "U+00A0", "U+1680", "U+2000", "U+2001",
     "U+2002", "U+2003", "U+2004", "U+2005", "U+2006", "U+2007", "U+2008",
     "U+2009", "U+200A", "U+2028", "U+2029", "U+202F", "U+205F", "U+3000"}
Strip(text) ==
    LET inked == {i \in 1..Len(text) : text[i] \notin Whitespace}
    IN  IF inked = {} THEN <<>>
        ELSE SubSeq(text, CHOOSE i \in inked : \A j \in inked : i <= j,
                          CHOOSE i \in inked : \A j \in inked : j <= i)

\* GoogleSheetDialog.get_name: the text of the name field, or the default
\* name (U+AD6C U+AE00 U+C2DC U+D2B8 "_" and the date "%Y%m%d") when it is
\* blank.
DefaultSheetName ==
    <<"U+AD6C", "U+AE00", "U+C2DC", "U+D2B8", "_", "2", "0", "2", "6", "0", "1", "0", "1">>
get_name(name_text) ==
    IF Strip(name_text) = <<>> THEN DefaultSheetName ELSE Strip(name_text)

\* GoogleSheetDialog.get_url
get_url(url_text) == Strip(url_text)

(* What the user types into the sheet dialog. *)
SheetUrl == Host \o PathMarker \o <<"A", "B", "C", "1", "2", "3">> \o <<"/", "e", "d", "i", "t">>
OpenUrl == Host \o <<"/", "o", "p", "e", "n", "?">> \o QueryMarker \o <<"x", "y">>
OtherUrl == Host \o <<"/", "e", "d", "i", "t">>
UrlTexts == {<<" ">>, OtherUrl, SheetUrl, <<" ">> \o OpenUrl \o <<"\n">>}
NameTexts == {<<" ">>, RoutineName}

\* load_google_sheet with the dialog accepted or not, the texts typed into
\* it, pd.read_csv returning read (or raising) and datetime.now() reading T0.
LoadGoogleSheet ==
    /\ proc = "up"
    /\ nAdds < MaxLoads
    /\ \E url_text \in UrlTexts :
        LET url == get_url(url_text)
            csv_url == get_google_sheet_csv_url(url, "0")
        IN  \E accepted \in BOOLEAN, name_text \in NameTexts, read \in Reads :
            LET name == get_name(name_text)
                data == parse_dataframe(read)
                record(ret) == Call("load_google_sheet",
                                    [accepted |-> accepted, url |-> url,
                                     name |-> name, csv_url |-> csv_url,
                                     read |-> read, data |-> data,
                                     timestamp |-> T0], ret, FALSE)
                same == UNCHANGED <<proc, hanja_list, current_index, showing_hanja,
                                    is_running, timer, display, combo_items,
                                    combo_current>>
                \* inputs that are not looked at take one value
                unread == name_text = <<" ">> /\ read = ReadError
            IN  IF ~accepted
                THEN /\ url_text = <<" ">> /\ unread
                     /\ dialog' = "none"
                     /\ last' = record(None)
                     /\ same
                     /\ UNCHANGED <<disk, nAdds>>
                ELSE IF url = <<>>
                THEN /\ unread
                     /\ dialog' = "enter_url"
                     /\ last' = record(None)
                     /\ same
                     /\ UNCHANGED <<disk, nAdds>>
                ELSE IF csv_url = None
                THEN /\ unread
                     /\ dialog' = "not_a_sheet_url"
                     /\ last' = record(None)
                     /\ same
                     /\ UNCHANGED <<disk, nAdds>>
                ELSE IF ReadRaises(read)
                THEN /\ name_text = <<" ">>
                     /\ dialog' = "sheet_error"
                     /\ last' = record(None)
                     /\ same
                     /\ UNCHANGED <<disk, nAdds>>
                ELSE IF data = <<>>
                THEN /\ name_text = <<" ">>
                     /\ dialog' = "no_data"
                     /\ last' = record(None)
                     /\ same
                     /\ UNCHANGED <<disk, nAdds>>
                ELSE \E done \in add_to_cache(name, Google, url, data, T0) :
                     /\ index_file' = done.index_file
                     /\ cache_files' = done.cache_files
                     /\ nAdds' = nAdds + 1
                     /\ last' = record(done.ret)
                     /\ IF done.ret = Raised
                        THEN /\ dialog' = "sheet_error"
                             /\ same
                        ELSE /\ hanja_list' \in Shuffles(data)
                             /\ on_data_loaded
                             /\ IF ReadIndex(done.index_file) = Raised
                                THEN /\ dialog' = "sheet_error"
                                     /\ UNCHANGED <<combo_items, combo_current>>
                                ELSE /\ combo_items' = ReadIndex(done.index_file).data
                                     /\ combo_current' = 0
                                     /\ dialog' = "loaded_sheet"
                             /\ UNCHANGED proc
    /\ UNCHANGED <<nVaried, nFaults>>

\* The process is killed in load_local_excel while add_to_cache writes the
\* cache file: open(cache_filepath, 'w') has emptied it and json.dump has
\* not written it.
KilledInDataWrite ==
    \E file_path \in LocalFiles, read \in Reads \ {ReadError}, timestamp \in Times :
        /\ proc = "up"
        /\ nAdds < MaxLoads
        /\ nFaults < MaxFaults
        /\ parse_dataframe(read) # <<>>
        /\ LET cache_filepath == PathJoin(CACHE_DIR, CacheFilename(Stem(file_path), timestamp))
           IN  /\ cache_files' = WriteFile(cache_files, cache_filepath, Truncated)
               /\ last' = Call("killed_in_data_write",
                                [file_path |-> file_path, timestamp |-> timestamp],
                                None, FALSE)
        /\ ProcessDown
        /\ nAdds' = nAdds + 1
        /\ nFaults' = nFaults + 1
        /\ UNCHANGED <<index_file, nVaried>>

\* The process is killed in load_local_excel while save_cache_index writes the
\* index: open(CACHE_INDEX_FILE, 'w') has emptied it and json.dump has not
\* written it.
KilledInSave ==
    \E file_path \in LocalFiles, read \in Reads \ {ReadError}, timestamp \in Times :
        /\ proc = "up"
        /\ nAdds < MaxLoads
        /\ nFaults < MaxFaults
        /\ parse_dataframe(read) # <<>>
        /\ \E done \in add_to_cache(Stem(file_path), Local, file_path,
                                    parse_dataframe(read), timestamp) :
               /\ done.ret # Raised
               /\ cache_files' = done.cache_files
               /\ index_file' = Truncated
               /\ last' = Call("killed_in_save", [index |-> done.index_file],
                                None, FALSE)
        /\ ProcessDown
        /\ nAdds' = nAdds + 1
        /\ nFaults' = nFaults + 1
        /\ UNCHANGED nVaried

\* The user deletes a cache file.
ExternalRemove ==
    \E path \in DOMAIN cache_files :
        /\ nFaults < MaxFaults
        /\ cache_files' = RemoveFiles(cache_files, {path})
        /\ last' = Call("external_remove", [path |-> path], None, FALSE)
        /\ nFaults' = nFaults + 1
        /\ UNCHANGED <<index_file, gui, nAdds, nVaried>>

NextApp ==
    \/ LoadLocalExcel
    \/ SelectCache
    \/ LoadFromCacheSelected
    \/ KilledInDataWrite
    \/ KilledInSave
    \/ Restart
    \/ ExternalRemove

SpecApp == Init /\ [][NextApp]_vars

----------------------------------------------------------------------------
(* Trainer: the timer and the keys and buttons that move through the       *)
(* loaded records.  current_index counts from 0.                           *)

\* (fault) the step back does not wrap around
PrevIndex_NoWrap(index, n) == index - 1

\* (self.current_index - 1) % len(self.hanja_list)
PrevIndex(index, n) == (index - 1) % n

\* (self.current_index + 1) % len(self.hanja_list)
NextIndex(index, n) == (index + 1) % n

\* shuffle_hanja
ShuffleHanja ==
    /\ proc = "up"
    /\ last' = Call("shuffle_hanja", <<>>, None, FALSE)
    /\ IF hanja_list # <<>>
       THEN /\ hanja_list' \in Shuffles(hanja_list)
            /\ current_index' = 0
            /\ display' = "hanja"
            /\ dialog' = "shuffled"
       ELSE /\ dialog' = "none"
            /\ UNCHANGED <<hanja_list, current_index, display>>
    /\ UNCHANGED <<disk, proc, showing_hanja, is_running, timer, combo_items,
                   combo_current, nAdds, nVaried, nFaults>>

\* start_memorizing
StartMemorizing ==
    IF hanja_list = <<>>
    THEN UNCHANGED <<is_running, showing_hanja, display, timer>>
    ELSE /\ is_running' = TRUE
         /\ showing_hanja' = TRUE
         /\ display' = "hanja"
         /\ timer' = "hanja_time"

\* stop_memorizing
StopMemorizing ==
    /\ is_running' = FALSE
    /\ timer' = "stopped"
    /\ UNCHANGED <<showing_hanja, display>>

\* toggle_start: the start button and the space key
ToggleStart ==
    /\ proc = "up"
    /\ last' = Call("toggle_start", <<>>, None, FALSE)
    /\ IF is_running THEN StopMemorizing ELSE StartMemorizing
    /\ dialog' = "none"
    /\ UNCHANGED <<disk, proc, hanja_list, current_index, combo_items,
                   combo_current, nAdds, nVaried, nFaults>>

\* toggle_display: the timer fires
ToggleDisplay ==
    /\ proc = "up"
    /\ timer # "stopped"
    /\ last' = Call("toggle_display", <<>>, None, FALSE)
    /\ IF hanja_list = <<>>
       THEN UNCHANGED <<showing_hanja, current_index, display, timer>>
       ELSE IF showing_hanja
       THEN /\ showing_hanja' = FALSE
            /\ display' = "meaning"
            /\ timer' = "meaning_time"
            /\ UNCHANGED current_index
       ELSE /\ showing_hanja' = TRUE
            /\ current_index' = NextIndex(current_index, Len(hanja_list))
            /\ display' = "hanja"
            /\ timer' = "hanja_time"
    /\ dialog' = "none"
    /\ UNCHANGED <<disk, proc, hanja_list, is_running, combo_items,
                   combo_current, nAdds, nVaried, nFaults>>

\* prev_hanja
PrevHanja ==
    /\ proc = "up"
    /\ last' = Call("prev_hanja", <<>>, None, FALSE)
    /\ IF hanja_list = <<>>
       THEN UNCHANGED <<current_index, showing_hanja, display, timer>>
       ELSE /\ current_index' = PrevIndex(current_index, Len(hanja_list))
            /\ showing_hanja' = TRUE
            /\ display' = "hanja"
            /\ timer' = IF is_running THEN "hanja_time" ELSE timer
    /\ dialog' = "none"
    /\ UNCHANGED <<disk, proc, hanja_list, is_running, combo_items,
                   combo_current, nAdds, nVaried, nFaults>>

\* next_hanja
NextHanja ==
    /\ proc = "up"
    /\ last' = Call("next_hanja", <<>>, None, FALSE)
    /\ IF hanja_list = <<>>
       THEN UNCHANGED <<current_index, showing_hanja, display, timer>>
       ELSE /\ current_index' = NextIndex(current_index, Len(hanja_list))
            /\ showing_hanja' = TRUE
            /\ display' = "hanja"
            /\ timer' = IF is_running THEN "hanja_time" ELSE timer
    /\ dialog' = "none"
    /\ UNCHANGED <<disk, proc, hanja_list, is_running, combo_items,
                   combo_current, nAdds, nVaried, nFaults>>

NextTrainer ==
    \/ ReloadLocalExcel
    \/ ShuffleHanja
    \/ ToggleStart
    \/ ToggleDisplay
    \/ PrevHanja
    \/ NextHanja

SpecTrainer == Init /\ [][NextTrainer]_vars

(* The two loaders, with a step through the loaded records between loads. *)
NextLoad ==
    \/ ReloadLocalExcel
    \/ LoadGoogleSheet
    \/ NextHanja

SpecLoad == Init /\ [][NextLoad]_vars

----------------------------------------------------------------------------
(* Properties of the cache store. *)

\* The entries of a parsable index file; none when it does not parse.
Entries(file) == IF file.kind = "json" THEN file.value ELSE <<>>

\* The persisted index.
Index == Entries(index_file)

AfterAdd == last.op = "add_to_cache"

\* The index the last call started with.
IndexBefore == Entries(last.before.index_file)

\* Its entries of the sources other than the one added, in their order.
OthersBefore ==
    LET NotAdded(f) == f.source_path # last.args.source_path
    IN  SelectSeq(IndexBefore, NotAdded)

FileOf(entry) == CACHE_DIR \o entry.cache_file

C2_UniqueSource ==
    /\ \A i, j \in 1..Len(Index) :
            Index[i].source_path = Index[j].source_path => i = j
    /\ (AfterAdd /\ Len(OthersBefore) < Len(IndexBefore)) =>
            /\ Len(Index) = Len(IndexBefore)
            /\ \E i \in 1..Len(Index) :
                    Index[i].source_path = last.args.source_path
            /\ \A i \in 1..Len(Index) :
                    Index[i].source_path = last.args.source_path =>
                        /\ Index[i].cache_file =
                                CacheFilename(last.args.name, last.args.timestamp)
                        /\ Index[i].name = last.args.name
                        /\ Index[i].count = Len(last.args.data)

\* C3: after add_to_cache the entry of the source just added is at position
\* 0 and the entries behind it are the previous entries of the other sources
\* in their previous order (cut at the cap).
C3_NewestFirst ==
    AfterAdd =>
        /\ Len(Index) >= 1
        /\ Index[1].source_path = last.args.source_path
        /\ Len(Index) - 1 <= Len(OthersBefore)
        /\ \A i \in 2..Len(Index) : Index[i] = OthersBefore[i - 1]
        /\ Len(Index) - 1 < Len(OthersBefore) => Len(Index) = 20

\* C4: when add_to_cache makes the index exceed 20 entries, the entries
\* dropped are exactly those beyond position 20, oldest last, and none of
\* their cache files exists after the call.
C4_EvictOldest ==
    (AfterAdd /\ Len(OthersBefore) + 1 > 20) =>
        /\ Len(Index) = 20
        /\ \A i \in 2..20 : Index[i] = OthersBefore[i - 1]
        /\ \A k \in 20..Len(OthersBefore) :
                /\ \A i \in 1..Len(Index) : Index[i] # OthersBefore[k]
                /\ FileOf(OthersBefore[k]) \notin DOMAIN cache_files

\* C5: load_from_cache of the reference add_to_cache returned yields the
\* records that were added.
C5_RoundTrip ==
    (AfterAdd /\ last.ret.kind = "value") =>
        load_from_cache(last.ret.data) = Value(last.args.data)

\* C15: after every completed add_to_cache call of a sequence that starts
\* with the empty cache, every entry of the persisted index refers to a cache
\* file that exists on disk.
C15_ReferentialIntegrity ==
    (AfterAdd /\ last.ret.kind = "value") =>
        \A i \in 1..Len(Index) : FileOf(Index[i]) \in DOMAIN cache_files


----------------------------------------------------------------------------
(* Properties of the cache store under kills and of the handlers that use  *)
(* it.                                                                     *)

\* C6: a kill in the middle of save_cache_index leaves on disk either the
\* complete prior index or the complete new index.
C6_SaveAtomic ==
    (last.op = "killed_in_save" /\ JsonParses(last.before.index_file)) =>
        index_file \in {last.before.index_file, last.args.index}

AfterLoadSelected ==
    last.op = "load_from_cache_selected" /\ last.args.file_info # None

\* The cache file of the entry the last load_from_cache_selected was given.
SelectedFile == FileOf(last.args.file_info.data)

KeptDataset ==
    /\ hanja_list = last.before.hanja_list
    /\ current_index = last.before.current_index

\* C7: loading a selected entry whose cache file exists but does not parse
\* yields the absent result, no exception leaves the handler, the dataset
\* loaded before is kept and the program stays up.
C7_UnparsableIsAbsent ==
    (/\ AfterLoadSelected
     /\ SelectedFile \in DOMAIN last.before.cache_files
     /\ ~JsonParses(last.before.cache_files[SelectedFile])) =>
        /\ last.ret = None
        /\ ~last.escaped
        /\ proc = "up"
        /\ KeptDataset

\* The call started with an index file that is absent or does not parse.
NoIndexBefore == ~JsonParses(last.before.index_file)

\* C8: with the index file absent or unparsable, load_cache_index yields the
\* empty index and raises nothing: the dropdown filled at start-up is empty,
\* and a load that adds to the cache leaves an index of that one entry, shown
\* in the dropdown.
C8_CorruptIndexIsEmpty ==
    /\ ~JsonParses(index_file) => load_cache_index = Value(<<>>)
    /\ (last.op = "restart" /\ NoIndexBefore) =>
            /\ ~last.escaped
            /\ proc = "up"
            /\ combo_items = <<>>
            /\ index_file = last.before.index_file
    /\ (last.op = "load_local_excel" /\ NoIndexBefore /\ last.ret # None) =>
            /\ last.ret.kind = "value"
            /\ dialog = "loaded"
            /\ JsonParses(index_file)
            /\ Len(Index) = 1
            /\ Index[1].source_path = last.args.file_path
            /\ combo_items = Index

\* A load added to the cache when the index file was cut short by a kill.
C8_Witness ==
    /\ last.op = "load_local_excel"
    /\ last.before.index_file = Truncated
    /\ Len(Index) = 1
    /\ Cardinality(DOMAIN cache_files) = 2

\* C9: load_from_cache of a reference whose file does not exist returns None
\* and raises nothing, the index and the cache files are as before, and
\* load_from_cache_selected reports 'cache file not found' and keeps the
\* dataset loaded before.
C9_MissingIsAbsent ==
    (AfterLoadSelected /\ SelectedFile \notin DOMAIN last.before.cache_files) =>
        /\ last.ret = None
        /\ ~last.escaped
        /\ proc = "up"
        /\ index_file = last.before.index_file
        /\ cache_files = last.before.cache_files
        /\ dialog = "cache_not_found"
        /\ KeptDataset

\* An entry whose cache file is gone was loaded while a dataset was loaded.
C9_Witness ==
    /\ AfterLoadSelected
    /\ SelectedFile \notin DOMAIN last.before.cache_files
    /\ Len(hanja_list) = 2

----------------------------------------------------------------------------
(* Properties of the two loaders. *)

\* The last call was a load from a file that was chosen.
LocalLoad == last.op = "load_local_excel" /\ last.args.file_path # <<>>

\* The last call was a load from a sheet with the dialog accepted.
SheetLoad == last.op = "load_google_sheet" /\ last.args.accepted

\* What the last call found is what there is now.
StateKept ==
    /\ hanja_list = last.before.hanja_list
    /\ current_index = last.before.current_index
    /\ index_file = last.before.index_file
    /\ cache_files = last.before.cache_files

\* C11: a load whose source is unreadable (the file read raises, the sheet
\* download raises, or no sheet identifier is found in the URL) shows one
\* error message and leaves the loaded dataset, the position, the index file
\* and the cache files as they were.
C11_FailedLoadKeepsState ==
    /\ (LocalLoad /\ last.args.read = ReadError) =>
            dialog = "read_error" /\ StateKept
    /\ (SheetLoad /\ last.args.csv_url = None) =>
            dialog \in {"enter_url", "not_a_sheet_url"} /\ StateKept
    /\ (SheetLoad /\ last.args.csv_url # None /\ last.args.read = ReadError) =>
            dialog = "sheet_error" /\ StateKept

\* The download of a sheet failed while the second of two loaded records was
\* the current one and the cache held an entry.
C11_Witness ==
    /\ SheetLoad
    /\ last.args.csv_url # None
    /\ last.args.read = ReadError
    /\ Len(hanja_list) = 2
    /\ current_index = 1
    /\ Len(Index) >= 1

\* The source of the last load was read and has no valid record.
EmptyLoad ==
    /\ LocalLoad \/ (SheetLoad /\ last.args.csv_url # None)
    /\ last.args.read # ReadError
    /\ last.args.data = <<>>

\* C12: a load, from a file or from a sheet, whose source is read and has no
\* valid record shows the 'no data found' message, which is none of the
\* error messages, and adds nothing to the cache.
C12_NoDataReported ==
    EmptyLoad =>
        /\ dialog = "no_data"
        /\ index_file = last.before.index_file
        /\ cache_files = last.before.cache_files

----------------------------------------------------------------------------
(* Properties of the trainer. *)

AfterTick == last.op = "toggle_display" /\ last.before.hanja_list # <<>>

\* C14: a timer tick that finds the character of the current record on
\* display shows its reading and meaning and keeps the position; only a tick
\* that finds the reading and meaning on display moves to the next record
\* and shows its character.
C14_TicksAlternate ==
    AfterTick =>
        IF last.before.display = "meaning"
        THEN /\ display = "hanja"
             /\ current_index =
                    (last.before.current_index + 1) % Len(hanja_list)
        ELSE /\ display = "meaning"
             /\ current_index = last.before.current_index

InRange == current_index \in 0..(Len(hanja_list) - 1)

\* The number of records the last call found loaded.
LenBefore == Len(last.before.hanja_list)

\* C16: with a dataset loaded current_index lies in 0 .. len(hanja_list)-1;
\* previous and next wrap around modulo the length, a load resets the
\* position to 0, and the trainer runs only with a dataset loaded.
C16_IndexInRange ==
    /\ hanja_list # <<>> => InRange
    /\ is_running => hanja_list # <<>>
    /\ (last.op = "next_hanja" /\ LenBefore > 0) =>
            current_index = IF last.before.current_index = LenBefore - 1
                            THEN 0 ELSE last.before.current_index + 1
    /\ (last.op = "prev_hanja" /\ LenBefore > 0) =>
            current_index = IF last.before.current_index = 0
                            THEN LenBefore - 1 ELSE last.before.current_index - 1
    /\ (last.op = "load_local_excel" /\ last.ret # None) => current_index = 0

\* While the trainer ran at the last of two records, a dataset of one record
\* was loaded.
C16_Witness ==
    /\ last.op = "load_local_excel"
    /\ is_running
    /\ LenBefore = 2
    /\ last.before.current_index = 1
    /\ Len(hanja_list) = 1

----------------------------------------------------------------------------
(* Properties of the sheet URL resolution. *)

AfterUrl == last.op = "get_google_sheet_csv_url"

\* The positions of url where lit stands with an identifier character
\* behind it.
Occurrences(url, lit) ==
    {i \in 1..Len(url) :
        /\ StartsAt(url, i, lit)
        /\ i + Len(lit) <= Len(url)
        /\ url[i + Len(lit)] \in IdChars}

\* The identifier behind the occurrence of lit at position i: the characters
\* up to the first one that is no identifier character.
IdentifierAt(url, lit, i) ==
    LET from == i + Len(lit)
        to == CHOOSE b \in from..Len(url) :
                /\ \A k \in from..b : url[k] \in IdChars
                /\ b = Len(url) \/ url[b + 1] \notin IdChars
    IN  SubSeq(url, from, to)

Leftmost(S) == CHOOSE i \in S : \A j \in S : i <= j

\* The export URL of an identifier with gid 0.
ExportOf(id) ==
    Value(<<"https://docs.google.com/spreadsheets/d/">> \o id
          \o <<"/export?format=csv&gid=", "0">>)

\* C13: get_google_sheet_csv_url returns the export URL
\* https://docs.google.com/spreadsheets/d/<id>/export?format=csv&gid=0 of the
\* identifier the URL holds in the form /spreadsheets/d/<id> (the leftmost
\* one), else of the identifier it holds in the form id=<id> (the leftmost
\* one), and None when the URL holds neither form.
C13_ExportUrl ==
    AfterUrl =>
        LET url == last.args.sheet_url
            inPath == Occurrences(url, PathMarker)
            inQuery == Occurrences(url, QueryMarker)
        IN  IF inPath # {}
            THEN last.ret = ExportOf(IdentifierAt(url, PathMarker, Leftmost(inPath)))
            ELSE IF inQuery # {}
            THEN last.ret = ExportOf(IdentifierAt(url, QueryMarker, Leftmost(inQuery)))
            ELSE last.ret = None

\* The URL https://docs.google.com/spreadsheets/d/ABC123/edit was resolved.
C13_Witness ==
    /\ AfterUrl
    /\ last.args.sheet_url =
            Host \o PathMarker \o <<"A", "B", "C", "1", "2", "3">>
            \o <<"/", "e", "d", "i", "t">>
    /\ last.ret = ExportOf(<<"A", "B", "C", "1", "2", "3">>)

----------------------------------------------------------------------------
(* Properties of the dataset loader. *)

AfterParse == last.op = "parse_dataframe"

\* Rows of the call for which extraction does not raise.
ReadableRows ==
    LET Readable(row) == Len(row) >= 4
    IN  SelectSeq(last.args.df.rows, Readable)

\* A missing or blank cell: a cell without content, which the readers
\* deliver as the missing value.
Blank(cell) == cell.t = "nan"

\* The record of a row: the text of its cells, a missing or blank cell as
\* the empty string.
RecordOf(row) ==
    [hanja |-> row[2].s,
     reading |-> IF Blank(row[3]) THEN <<>> ELSE row[3].s,
     meaning |-> IF Blank(row[4]) THEN <<>> ELSE row[4].s]

RecordsOf(rows) == [i \in 1..Len(rows) |-> RecordOf(rows[i])]

\* The character cell is non-empty and differs from the header label.
NonEmptyNotHeader(row) ==
    ~Blank(row[2]) /\ row[2].s # <<>> /\ row[2].s # <<"U+D55C", "U+C790">>

\* C10: parse_dataframe returns, in input order, the records of exactly the
\* rows whose character cell is non-empty and differs from the header label;
\* missing or blank reading and meaning cells become the empty string and
\* rows whose extraction raises are skipped.
C10_RowsKept ==
    AfterParse =>
        last.ret.data = RecordsOf(SelectSeq(ReadableRows, NonEmptyNotHeader))

\* A frame was parsed whose first row is the header row and whose second
\* row is kept with a missing reading.
C10_Witness ==
    /\ AfterParse
    /\ Len(last.args.df.rows) = 2
    /\ last.args.df.ncols = 4
    /\ last.args.df.rows[1][2] = StrCell(HeaderLabel)
    /\ last.args.df.rows[2][3] = NaN
    /\ Len(last.ret.data) = 1
    /\ last.ret.data[1].reading = <<>>

====
